---- MODULE Spec2Model ----
(***************************************************************************)
(* Model of tools/gpstring.py, the gdb pretty-printer script for GPString. *)
(*                                                                         *)
(* The script is Python run by gdb's embedded interpreter.  The model      *)
(* holds the interpreter's global namespace, gdb.pretty_printers, the      *)
(* debuggee's memory and type table, the GPStringPrinter objects that      *)
(* exist, and the outcome of the most recent calls.  Text is a sequence of *)
(* code points, memory a sequence of bytes.                                *)
(***************************************************************************)
EXTENDS Integers, Sequences, FiniteSets

VARIABLES
    globals,          \* the interpreter's global namespace: name -> object
    pretty_printers,  \* gdb.pretty_printers, a list of callables
    loads,            \* how many times the script has been run
    loadResult,       \* outcome of the most recent run of the script
    mem,              \* debuggee memory: mem[a] is the byte at address a
    symtab,           \* debuggee types gdb.lookup_type can find
    printers,         \* printers[i]: a GPStringPrinter object, or NoObject
    results,          \* results[i]: outcome of the last to_string on i
    lastLookup        \* the most recent call of a lookup function

vars == <<globals, pretty_printers, loads, loadResult, mem, symtab,
          printers, results, lastLookup>>

(***************************************************************************)
(* Bounds of the model.                                                    *)
(***************************************************************************)
MemSize == 4

MaxHeaderSize == 2

MaxLen == 4

MaxLoads == 2

MaxPrinters == 2

(***************************************************************************)
(* Characters the script and the codecs it calls name.                     *)
(***************************************************************************)
Quote == 34

Comma == 44

Space == 32

Backslash == 92

(***************************************************************************)
(* bytes -> str, codec "utf-8", errors "strict": what                      *)
(* gdb.Value.string("utf-8", length = n) does with the n bytes it fetched. *)
(* The result is [ok, cps]; ok = FALSE stands for UnicodeDecodeError.      *)
(***************************************************************************)
IsCont(b) == b >= 128 /\ b <= 191

\* Number of bytes of the sequence a lead byte starts; 0: not a lead byte.
Utf8SeqLen(b) ==
    IF b < 128 THEN 1
    ELSE IF b >= 194 /\ b <= 223 THEN 2
    ELSE IF b >= 224 /\ b <= 239 THEN 3
    ELSE IF b >= 240 /\ b <= 244 THEN 4
    ELSE 0

\* The second byte's range narrows after E0, ED, F0, F4 (no overlong forms,
\* no surrogates, nothing above U+10FFFF).
SecondOk(lead, b) ==
    /\ IsCont(b)
    /\ (lead = 224 => b >= 160)
    /\ (lead = 237 => b <= 159)
    /\ (lead = 240 => b >= 144)
    /\ (lead = 244 => b <= 143)

Utf8SeqOk(bs, i, n) ==
    /\ n > 0
    /\ i + n - 1 <= Len(bs)
    /\ (n >= 2 => SecondOk(bs[i], bs[i + 1]))
    /\ \A k \in 2 .. (n - 1) : IsCont(bs[i + k])

Utf8CodePoint(bs, i, n) ==
    IF n = 1 THEN bs[i]
    ELSE IF n = 2 THEN (bs[i] - 192) * 64 + (bs[i + 1] - 128)
    ELSE IF n = 3 THEN (bs[i] - 224) * 4096 + (bs[i + 1] - 128) * 64
                       + (bs[i + 2] - 128)
    ELSE (bs[i] - 240) * 262144 + (bs[i + 1] - 128) * 4096
         + (bs[i + 2] - 128) * 64 + (bs[i + 3] - 128)

RECURSIVE Utf8DecodeFrom(_, _)
Utf8DecodeFrom(bs, i) ==
    IF i > Len(bs) THEN [ok |-> TRUE, cps |-> <<>>]
    ELSE LET n == Utf8SeqLen(bs[i])
         IN  IF ~Utf8SeqOk(bs, i, n) THEN [ok |-> FALSE, cps |-> <<>>]
             ELSE LET rest == Utf8DecodeFrom(bs, i + n)
                  IN  IF rest.ok
                      THEN [ok |-> TRUE,
                            cps |-> <<Utf8CodePoint(bs, i, n)>> \o rest.cps]
                      ELSE rest

Utf8Decode(bs) == Utf8DecodeFrom(bs, 1)

(***************************************************************************)
(* str -> bytes, codec "unicode_escape".                                   *)
(***************************************************************************)
HexDigit(d) == IF d < 10 THEN 48 + d ELSE 87 + d

\* v as exactly n lower-case hexadecimal digits.
RECURSIVE Hex(_, _)
Hex(v, n) ==
    IF n = 0 THEN <<>> ELSE Append(Hex(v \div 16, n - 1), HexDigit(v % 16))

\* A variant whose printable range ends one character too late: DEL is copied.
EscapeChar_del(ch) ==
    IF ch = Backslash THEN <<Backslash, Backslash>>
    ELSE IF ch = 9 THEN <<Backslash, 116>>
    ELSE IF ch = 10 THEN <<Backslash, 110>>
    ELSE IF ch = 13 THEN <<Backslash, 114>>
    ELSE IF ch >= 32 /\ ch <= 127 THEN <<ch>>
    ELSE IF ch < 256 THEN <<Backslash, 120>> \o Hex(ch, 2)
    ELSE IF ch < 65536 THEN <<Backslash, 117>> \o Hex(ch, 4)
    ELSE <<Backslash, 85>> \o Hex(ch, 8)

\* A variant that copies the backslash like any printable character.
EscapeChar_rawbackslash(ch) ==
    IF ch = 9 THEN <<Backslash, 116>>
    ELSE IF ch = 10 THEN <<Backslash, 110>>
    ELSE IF ch = 13 THEN <<Backslash, 114>>
    ELSE IF ch >= 32 /\ ch < 127 THEN <<ch>>
    ELSE IF ch < 256 THEN <<Backslash, 120>> \o Hex(ch, 2)
    ELSE IF ch < 65536 THEN <<Backslash, 117>> \o Hex(ch, 4)
    ELSE <<Backslash, 85>> \o Hex(ch, 8)

EscapeChar(ch) ==
    IF ch = Backslash THEN <<Backslash, Backslash>>
    ELSE IF ch = 9 THEN <<Backslash, 116>>
    ELSE IF ch = 10 THEN <<Backslash, 110>>
    ELSE IF ch = 13 THEN <<Backslash, 114>>
    ELSE IF ch >= 32 /\ ch < 127 THEN <<ch>>
    ELSE IF ch < 256 THEN <<Backslash, 120>> \o Hex(ch, 2)
    ELSE IF ch < 65536 THEN <<Backslash, 117>> \o Hex(ch, 4)
    ELSE <<Backslash, 85>> \o Hex(ch, 8)

RECURSIVE UnicodeEscape(_)
UnicodeEscape(s) ==
    IF s = <<>> THEN <<>>
    ELSE EscapeChar(Head(s)) \o UnicodeEscape(Tail(s))

(***************************************************************************)
(* str(gdb.Value) of a struct: gdb's own rendering of the record, here the *)
(* fields in decimal between braces.                                       *)
(***************************************************************************)
RECURSIVE Decimal(_)
Decimal(n) ==
    IF n < 10 THEN <<48 + n>> ELSE Append(Decimal(n \div 10), 48 + (n % 10))

RECURSIVE JoinFields(_)
JoinFields(fs) ==
    IF fs = <<>> THEN <<>>
    ELSE IF Len(fs) = 1 THEN Decimal(fs[1])
    ELSE Decimal(Head(fs)) \o <<Comma, Space>> \o JoinFields(Tail(fs))

ValueStr(fields) == <<123>> \o JoinFields(fields) \o <<125>>

(***************************************************************************)
(* The debuggee as gdb's Python API shows it.                              *)
(***************************************************************************)
\* What symtab holds for a type name the debuggee does not define.
NoType == [sizeof |-> 0, length_at |-> 0]

CharType == [sizeof |-> 1, length_at |-> 0]

\* A header type of n one-byte fields whose field "length" is the k-th.
HeaderType(n, k) == [sizeof |-> n, length_at |-> k]

\* gdb.lookup_type(name): the type, or gdb.error when there is none.
lookup_type(tab, name) ==
    [found |-> tab[name] # NoType, type |-> tab[name]]

\* gdb.Value.cast to a pointer type: the same address, a new target type.
Cast(val, target) == [addr |-> val.addr, target |-> target]

\* A variant that steps back n bytes instead of n elements.
PtrSub_bytes(ptr, n) == [ptr EXCEPT !.addr = @ - n]

\* Pointer minus integer: gdb scales by the size of the target type.
PtrSub(ptr, n) == [ptr EXCEPT !.addr = @ - n * ptr.target.sizeof]

\* gdb.Value.dereference: a lazy value, nothing is read yet.
Dereference(ptr) == [addr |-> ptr.addr, type |-> ptr.target]

Mapped(m, a) == a \in DOMAIN m

\* A read of n bytes at address a; ok = FALSE stands for gdb.MemoryError.
\* A read of no bytes touches no memory.
ReadMemory(m, a, n) ==
    IF \A k \in 0 .. (n - 1) : Mapped(m, a + k)
    THEN [ok |-> TRUE, bytes |-> [k \in 1 .. n |-> m[a + k - 1]]]
    ELSE [ok |-> FALSE, bytes |-> <<>>]

\* str_data["length"] converted to an integer: a read of that one field.
ReadLength(m, sv) ==
    LET r == ReadMemory(m, sv.addr + sv.type.length_at, 1)
    IN  [ok |-> r.ok, value |-> IF r.ok THEN r.bytes[1] ELSE 0]

(***************************************************************************)
(* Outcomes of a call: a return value or a raised exception.               *)
(***************************************************************************)
NoLocals == [decoded |-> <<>>, val_contents |-> <<>>, str_data |-> <<>>]

Return(s, l) == [kind |-> "return", exc |-> "", value |-> s, locals |-> l]

\* A variant in which the method catches the exception and returns "".
Raise_caught(e) == Return(<<>>, NoLocals)

\* No statement of to_string is inside a try: an exception ends the call.
Raise(e) == [kind |-> "raise", exc |-> e, value |-> <<>>, locals |-> NoLocals]

NoCall == [kind |-> "none", exc |-> "", value |-> <<>>, locals |-> NoLocals]

(***************************************************************************)
(* class GPStringPrinter                                                   *)
(***************************************************************************)
NoVal == [type |-> "<none>", addr |-> 0]

NoObject == [cls |-> "NoneType", val |-> NoVal]

\* Calling a class object makes an instance whose __init__ stores val.
Instantiate(cls, val) == [cls |-> cls, val |-> val]

GPStringPrinter(val) == Instantiate("GPStringPrinter", val)

\* A variant that concatenates the two texts with nothing around them.
Literal_bare(val_contents, str_data) == val_contents \o str_data

\* The return expression: "\"" + val_contents + "\", " + str(str_data)
Literal(val_contents, str_data) ==
    <<Quote>> \o val_contents \o <<Quote, Comma, Space>> \o str_data

to_string(self, m, tab) ==
    LET T_str_data == lookup_type(tab, "GPStringHeader")
    IN  IF ~T_str_data.found THEN Raise("gdb.error") ELSE
    LET val_as_data_ptr == Cast(self.val, T_str_data.type)
        str_data == Dereference(PtrSub(val_as_data_ptr, 1))
        T_cstr == lookup_type(tab, "char")
    IN  IF ~T_cstr.found THEN Raise("gdb.error") ELSE
    LET length == ReadLength(m, str_data)
    IN  IF ~length.ok THEN Raise("gdb.MemoryError") ELSE
    LET fetched == ReadMemory(m, Cast(self.val, T_cstr.type).addr,
                              length.value * T_cstr.type.sizeof)
    IN  IF ~fetched.ok THEN Raise("gdb.MemoryError") ELSE
    LET decoded == Utf8Decode(fetched.bytes)
    IN  IF ~decoded.ok THEN Raise("UnicodeDecodeError") ELSE
    LET val_contents == Utf8Decode(UnicodeEscape(decoded.cps)).cps
        header == ReadMemory(m, str_data.addr, str_data.type.sizeof)
    IN  IF ~header.ok THEN Raise("gdb.MemoryError") ELSE
        Return(Literal(val_contents, ValueStr(header.bytes)),
               [decoded |-> decoded.cps, val_contents |-> val_contents,
                str_data |-> ValueStr(header.bytes)])

(***************************************************************************)
(* The lookup functions.  A global name is resolved when the statement     *)
(* that uses it runs: an unbound one raises NameError.                     *)
(***************************************************************************)
Unbound == "<unbound>"

ReturnObject(o) == [kind |-> "return", exc |-> "", obj |-> o]

RaiseFrom(e) == [kind |-> "raise", exc |-> e, obj |-> NoObject]

\* Call of whatever object the global name StringPrinter is bound to.
CallStringPrinter(g, val) ==
    IF g["StringPrinter"] = Unbound THEN RaiseFrom("NameError")
    ELSE ReturnObject(Instantiate(g["StringPrinter"], val))

\* A variant that matches on the prefix "GPString" instead of the whole name.
gp_str_lookup_function_prefix(g, val) ==
    IF val.type \in {"GPString", "GPString *"} THEN CallStringPrinter(g, val)
    ELSE ReturnObject(NoObject)

gp_str_lookup_function(g, val) ==
    IF val.type = "GPString" THEN CallStringPrinter(g, val)
    ELSE ReturnObject(NoObject)

\* A variant that matches when the name contains "GPString" after an
\* optional "const ".
gp_const_str_lookup_function_unqualified(g, val) ==
    IF val.type \in {"GPString", "const GPString"}
    THEN CallStringPrinter(g, val)
    ELSE ReturnObject(NoObject)

gp_const_str_lookup_function(g, val) ==
    IF val.type = "const GPString" THEN CallStringPrinter(g, val)
    ELSE ReturnObject(NoObject)

LookupFunctions == {"gp_str_lookup_function", "gp_const_str_lookup_function"}

CallLookup(fn, g, val) ==
    IF fn = "gp_str_lookup_function" THEN gp_str_lookup_function(g, val)
    ELSE gp_const_str_lookup_function(g, val)

(***************************************************************************)
(* Running the script: the class and the two functions are bound, then the *)
(* two registration statements run in order; the first statement that      *)
(* raises ends the run, and what ran before it stays.                      *)
(***************************************************************************)
\* Names the script binds, each to the object of the same name.
Defined == {"GPStringPrinter", "gp_str_lookup_function",
            "gp_const_str_lookup_function"}

\* Names the script reads and never binds.
Undefined == {"StringPrinter", "str_lookup_function",
              "const_str_lookup_function"}

Names == Defined \cup Undefined

\* Lines 4-26: class and def statements bind their names.
BindDefinitions(g) == [n \in Names |-> IF n \in Defined THEN n ELSE g[n]]

\* gdb.pretty_printers.append(<name>): the argument is evaluated first.
AppendGlobal(st, name) ==
    IF st.fault # "" THEN st
    ELSE IF st.globals[name] = Unbound THEN [st EXCEPT !.fault = "NameError"]
    ELSE [st EXCEPT !.pretty_printers = Append(@, st.globals[name])]

RunScript(g, pp) ==
    LET s0 == [globals |-> BindDefinitions(g), pretty_printers |-> pp,
               fault |-> ""]
        s1 == AppendGlobal(s0, "str_lookup_function")
        s2 == AppendGlobal(s1, "const_str_lookup_function")
    IN  s2

(***************************************************************************)
(* Actions                                                                 *)
(***************************************************************************)
\* gdb runs the script (source, or auto-load).
Load ==
    /\ loads < MaxLoads
    /\ LET st == RunScript(globals, pretty_printers)
       IN  /\ globals' = st.globals
           /\ pretty_printers' = st.pretty_printers
           /\ loadResult' = IF st.fault = "" THEN "completed" ELSE st.fault
    /\ loads' = loads + 1
    /\ UNCHANGED <<mem, symtab, printers, results, lastLookup>>

\* A call fn(val) of one of the two lookup functions.
Lookup(fn, val) ==
    /\ globals[fn] = fn
    /\ lastLookup' = [fn |-> fn, val |-> val,
                      outcome |-> CallLookup(fn, globals, val)]
    /\ UNCHANGED <<globals, pretty_printers, loads, loadResult, mem, symtab,
                   printers, results>>

\* printers[i] = GPStringPrinter(val)
Construct(i, val) ==
    /\ globals["GPStringPrinter"] = "GPStringPrinter"
    /\ printers[i] = NoObject
    /\ printers' = [printers EXCEPT ![i] = GPStringPrinter(val)]
    /\ UNCHANGED <<globals, pretty_printers, loads, loadResult, mem, symtab,
                   results, lastLookup>>

\* A variant in which to_string keeps the char pointer it cast:
\* self.val = self.val.cast(T_cstr)
ToString_rebinding(i) ==
    /\ printers[i] # NoObject
    /\ results' = [results EXCEPT ![i] = to_string(printers[i], mem, symtab)]
    /\ printers' = [printers EXCEPT
                       ![i].val = [type |-> "char *", addr |-> @.addr]]
    /\ UNCHANGED <<globals, pretty_printers, loads, loadResult, mem, symtab,
                   lastLookup>>

\* printers[i].to_string()
ToString(i) ==
    /\ printers[i] # NoObject
    /\ results' = [results EXCEPT ![i] = to_string(printers[i], mem, symtab)]
    /\ UNCHANGED <<globals, pretty_printers, loads, loadResult, mem, symtab,
                   printers, lastLookup>>

(***************************************************************************)
(* Values of the debuggee handed to the script.                            *)
(***************************************************************************)
TypeNames == {"GPString", "const GPString", "GPString *",
              "volatile GPString", "gpstring", ""}

DebuggeeVals(types, addrs) ==
    {[type |-> t, addr |-> a] : t \in types, a \in addrs}

Slots == 1 .. MaxPrinters

(***************************************************************************)
(* Spec: the script in its host.  The namespace the script is run in may   *)
(* already bind the names the script reads and never binds (gdb runs every *)
(* script in the one module __main__), and gdb.pretty_printers may already *)
(* hold printers.                                                          *)
(***************************************************************************)
Other(n) == "other." \o n

Namespaces ==
    {g \in [Names -> {Unbound} \cup {Other(n) : n \in Undefined}] :
        /\ \A n \in Defined : g[n] = Unbound
        /\ \A n \in Undefined : g[n] \in {Unbound, Other(n)}}

FreshNamespace == [n \in Names |-> Unbound]

NoLookup == [fn |-> "", val |-> NoVal, outcome |-> ReturnObject(NoObject)]

\* One header field, the length; "h" at address 2, an empty string at 4.
HostMem == <<1, 104, 0, 92>>

\* The values printers are made for: one of each matching type name.
HostPrinterVals == {[type |-> "GPString", addr |-> 2],
                    [type |-> "const GPString", addr |-> 4]}

HostSymtabs ==
    {[GPStringHeader |-> h, char |-> CharType] : h \in {NoType, HeaderType(1, 0)}}

Init ==
    /\ globals \in Namespaces
    /\ pretty_printers \in {<<>>, <<"other.printer">>}
    /\ loads = 0
    /\ loadResult = ""
    /\ mem = HostMem
    /\ symtab \in HostSymtabs
    /\ printers = [i \in Slots |-> NoObject]
    /\ results = [i \in Slots |-> NoCall]
    /\ lastLookup = NoLookup

Next ==
    \/ Load
    \/ \E fn \in LookupFunctions, v \in DebuggeeVals(TypeNames, {2}) :
          Lookup(fn, v)
    \/ \E i \in Slots, v \in HostPrinterVals : Construct(i, v)
    \/ \E i \in Slots : ToString(i)

Spec == Init /\ [][Next]_vars

(***************************************************************************)
(* FmtSpec: to_string over every memory of MemSize bytes, every header     *)
(* layout and every address, after one run of the script in a fresh        *)
(* namespace.                                                              *)
(***************************************************************************)
Loaded == RunScript(FreshNamespace, <<>>)

\* Small lengths, NUL, a backslash, a two-byte sequence's lead and its
\* continuation byte.
FmtBytes == {0, 1, 2, 92, 195, 169}

HeaderTypes ==
    UNION {{HeaderType(n, k) : k \in 0 .. (n - 1)} : n \in 1 .. MaxHeaderSize}

FmtSymtabs ==
    {[GPStringHeader |-> h, char |-> c] :
        h \in {NoType} \cup HeaderTypes, c \in {NoType, CharType}}

AfterLoad ==
    /\ globals = Loaded.globals
    /\ pretty_printers = Loaded.pretty_printers
    /\ loads = 1
    /\ loadResult = Loaded.fault
    /\ printers = [i \in Slots |-> NoObject]
    /\ results = [i \in Slots |-> NoCall]
    /\ lastLookup = NoLookup

FmtInit ==
    /\ AfterLoad
    /\ mem \in [1 .. MemSize -> FmtBytes]
    /\ symtab \in FmtSymtabs

FmtNext ==
    \/ \E a \in 1 .. (MemSize + 1) :
          Construct(1, [type |-> "GPString", addr |-> a])
    \/ ToString(1)

FmtSpec == FmtInit /\ [][FmtNext]_vars

(***************************************************************************)
(* EscSpec: to_string over every payload of MaxLen bytes of EscBytes       *)
(* behind a one-field header holding a length of 0 .. MaxLen.              *)
(***************************************************************************)
\* NUL, newline, the double quote, "A", the backslash, DEL, the lead bytes
\* of a two-, a three- and a four-byte sequence and a continuation byte.
EscBytes == {0, 10, 34, 65, 92, 127, 195, 226, 240, 169}

EscInit ==
    /\ AfterLoad
    /\ \E L \in 0 .. MaxLen, payload \in [1 .. MaxLen -> EscBytes] :
          mem = <<L>> \o payload
    /\ symtab = [GPStringHeader |-> HeaderType(1, 0), char |-> CharType]

EscNext ==
    \/ Construct(1, [type |-> "GPString", addr |-> 2])
    \/ ToString(1)

EscSpec == EscInit /\ [][EscNext]_vars

(***************************************************************************)
(* Notions the properties below use, read off the state.                   *)
(***************************************************************************)
None == ReturnObject(NoObject)

Called(i) == results[i] # NoCall

AddrOf(i) == printers[i].val.addr

TypesFound == symtab["GPStringHeader"] # NoType /\ symtab["char"] # NoType

InMemory(a, n) == \A k \in a .. (a + n - 1) : k \in 1 .. Len(mem)

\* The address sizeof(GPStringHeader) bytes before p.
HeaderAddr(p) == p - symtab["GPStringHeader"].sizeof

HeaderBytes(p) == [k \in 1 .. (p - HeaderAddr(p)) |-> mem[HeaderAddr(p) + k - 1]]

LengthField(p) == mem[HeaderAddr(p) + symtab["GPStringHeader"].length_at]

\* The LengthField(p) bytes that start at p.
Payload(p) == [k \in 1 .. LengthField(p) |-> mem[p + k - 1]]

\* A whole header in memory right before p, and as many bytes at p as its
\* length field says, all in memory.
HeaderAndBuffer(p) ==
    /\ TypesFound
    /\ InMemory(HeaderAddr(p), symtab["GPStringHeader"].sizeof)
    /\ InMemory(p, LengthField(p))

WellFormed(p) == HeaderAndBuffer(p) /\ Utf8Decode(Payload(p)).ok

(***************************************************************************)
(* C1.  A run of the script appends to gdb.pretty_printers exactly two     *)
(* entries, gp_str_lookup_function and then gp_const_str_lookup_function,  *)
(* and leaves every earlier entry where it was.                            *)
(***************************************************************************)
C1_LoadAppendsBothCallbacks ==
    [][loads' # loads =>
          pretty_printers' = pretty_printers \o
              <<"gp_str_lookup_function", "gp_const_str_lookup_function">>]_vars

(***************************************************************************)
(* C2.  A lookup function called with a value of its own type name returns *)
(* a GPStringPrinter holding that value, and every call of a lookup        *)
(* function returns a GPStringPrinter or None (none raises).               *)
(***************************************************************************)
OwnTypeName(fn) ==
    IF fn = "gp_str_lookup_function" THEN "GPString" ELSE "const GPString"

C2_MatchReturnsPrinter ==
    lastLookup.fn \in LookupFunctions =>
        /\ lastLookup.val.type = OwnTypeName(lastLookup.fn) =>
              lastLookup.outcome = ReturnObject(GPStringPrinter(lastLookup.val))
        /\ lastLookup.outcome.kind = "return"
        /\ lastLookup.outcome.obj.cls \in {"GPStringPrinter", "NoneType"}

(***************************************************************************)
(* C4.  Called with a value whose type name is neither "GPString" nor      *)
(* "const GPString", either lookup function returns None: it raises        *)
(* nothing and makes no object.                                            *)
(***************************************************************************)
C4_OtherNameReturnsNone ==
    (/\ lastLookup.fn \in LookupFunctions
     /\ lastLookup.val.type \notin {"GPString", "const GPString"})
        => lastLookup.outcome = None

C4_Witness ==
    /\ lastLookup.fn = "gp_str_lookup_function"
    /\ lastLookup.val.type = "GPString *"
    /\ lastLookup.outcome = None

(***************************************************************************)
(* C5.  A lookup function yields something other than None only for its   *)
(* own type name: gp_str_lookup_function returns None for "const GPString" *)
(* and gp_const_str_lookup_function returns None for "GPString".           *)
(***************************************************************************)
C5_OnlyOwnNameMatches ==
    lastLookup.fn \in LookupFunctions =>
        /\ lastLookup.outcome # None =>
              lastLookup.val.type = OwnTypeName(lastLookup.fn)
        /\ (/\ lastLookup.fn = "gp_str_lookup_function"
            /\ lastLookup.val.type = "const GPString")
              => lastLookup.outcome = None
        /\ (/\ lastLookup.fn = "gp_const_str_lookup_function"
            /\ lastLookup.val.type = "GPString")
              => lastLookup.outcome = None

C5_Witness ==
    /\ lastLookup.fn = "gp_const_str_lookup_function"
    /\ lastLookup.val.type = "GPString"
    /\ lastLookup.outcome = None

(***************************************************************************)
(* C3.  With a whole header right before the address the printer holds and *)
(* as many valid UTF-8 bytes at that address as the header's length field  *)
(* says, to_string returns the escaped decoding of those bytes followed by *)
(* str of the header.                                                      *)
(***************************************************************************)
EscapedPayload(p) == UnicodeEscape(Utf8Decode(Payload(p)).cps)

\* As stated: the two texts and nothing else.
C3_EscapedTextThenHeader ==
    \A i \in Slots :
        (Called(i) /\ WellFormed(AddrOf(i))) =>
            /\ results[i].kind = "return"
            /\ results[i].value =
                  EscapedPayload(AddrOf(i)) \o ValueStr(HeaderBytes(AddrOf(i)))

\* As the code has it: the escaped text between double quotes, a comma and
\* a space, then str of the header.
C3_QuotedEscapedTextThenHeader ==
    \A i \in Slots :
        (Called(i) /\ WellFormed(AddrOf(i))) =>
            /\ results[i].kind = "return"
            /\ results[i].value =
                  <<Quote>> \o EscapedPayload(AddrOf(i))
                      \o <<Quote, Comma, Space>>
                      \o ValueStr(HeaderBytes(AddrOf(i)))

C3_Witness ==
    /\ Called(1)
    /\ WellFormed(AddrOf(1))
    /\ LengthField(AddrOf(1)) >= 2
    /\ results[1].kind = "return"
    /\ EscapedPayload(AddrOf(1)) # Utf8Decode(Payload(AddrOf(1))).cps

(***************************************************************************)
(* C8.  to_string takes the header from the sizeof(GPStringHeader) bytes   *)
(* that end right before the address it holds, and decodes exactly as many *)
(* bytes from that address as the header's length field says: a zero byte  *)
(* does not end the text, and a length of 0 gives the empty text.          *)
(***************************************************************************)
C8_HeaderOneRecordBack ==
    \A i \in Slots :
        Called(i) =>
            /\ results[i].kind = "return" => WellFormed(AddrOf(i))
            /\ WellFormed(AddrOf(i)) =>
                  /\ results[i].kind = "return"
                  /\ results[i].locals.str_data =
                        ValueStr(HeaderBytes(AddrOf(i)))
                  /\ results[i].locals.decoded =
                        Utf8Decode(Payload(AddrOf(i))).cps
                  /\ (\A k \in 1 .. LengthField(AddrOf(i)) :
                          Payload(AddrOf(i))[k] < 128)
                        => results[i].locals.decoded = Payload(AddrOf(i))
                  /\ LengthField(AddrOf(i)) = 0
                        => results[i].locals.decoded = <<>>

\* A two-byte header whose length field is its first byte and differs from
\* its second, and a payload of two bytes that starts with a zero byte.
C8_Witness ==
    /\ Called(1)
    /\ results[1].kind = "return"
    /\ symtab["GPStringHeader"] = HeaderType(2, 0)
    /\ LengthField(AddrOf(1)) = 2
    /\ mem[AddrOf(1) - 1] # 2
    /\ mem[AddrOf(1)] = 0
    /\ Len(results[1].locals.decoded) = 2

(***************************************************************************)
(* C9.  The escaped text to_string puts between the quotes holds printable *)
(* ASCII only: every character of the decoded text that is printable ASCII *)
(* and no backslash is copied, every other one is replaced by a sequence   *)
(* that starts with a backslash.                                           *)
(***************************************************************************)
Printable(c) == c >= 32 /\ c <= 126

Drop(s, k) == [j \in 1 .. (Len(s) - k) |-> s[j + k]]

RECURSIVE EscapedCharByChar(_, _)
EscapedCharByChar(d, e) ==
    IF d = <<>> THEN e = <<>>
    ELSE IF Printable(Head(d)) /\ Head(d) # Backslash
    THEN /\ e # <<>>
         /\ Head(e) = Head(d)
         /\ EscapedCharByChar(Tail(d), Tail(e))
    ELSE /\ Len(e) >= 2
         /\ Head(e) = Backslash
         /\ \E k \in 2 .. Len(e) : EscapedCharByChar(Tail(d), Drop(e, k))

C9_EscapedTextIsPrintable ==
    \A i \in Slots :
        (Called(i) /\ results[i].kind = "return") =>
            LET d == results[i].locals.decoded
                e == results[i].locals.val_contents
            IN  /\ d = Utf8Decode(Payload(AddrOf(i))).cps
                /\ [k \in 1 .. Len(e) |-> results[i].value[k + 1]] = e
                /\ \A k \in 1 .. Len(e) : Printable(e[k])
                /\ EscapedCharByChar(d, e)

C9_Witness ==
    /\ Called(1)
    /\ results[1].kind = "return"
    /\ \E k \in DOMAIN results[1].locals.decoded :
          results[1].locals.decoded[k] >= 128
    /\ \E k \in DOMAIN results[1].locals.decoded :
          results[1].locals.decoded[k] \in {0, 10, 127}
    /\ \E k \in DOMAIN results[1].locals.decoded :
          results[1].locals.decoded[k] = 65

(***************************************************************************)
(* C10.  What to_string returns is a double quote, the escaped text, a     *)
(* double quote, a comma, a space and the header's text; the decoded text  *)
(* can be read back from the escaped text, because a backslash is escaped; *)
(* a double quote of the payload stays as it is.                           *)
(***************************************************************************)
HexDigitValue(c) == IF c >= 48 /\ c <= 57 THEN c - 48 ELSE c - 87

RECURSIVE HexValue(_)
HexValue(ds) ==
    IF ds = <<>> THEN 0
    ELSE HexValue(SubSeq(ds, 1, Len(ds) - 1)) * 16 + HexDigitValue(ds[Len(ds)])

\* The reader of escaped text: the inverse the codec "unicode_escape" has.
RECURSIVE Unescape(_)
Unescape(e) ==
    IF e = <<>> THEN <<>>
    ELSE IF Head(e) # Backslash \/ Len(e) = 1
    THEN <<Head(e)>> \o Unescape(Tail(e))
    ELSE IF e[2] = Backslash THEN <<Backslash>> \o Unescape(Drop(e, 2))
    ELSE IF e[2] = 116 THEN <<9>> \o Unescape(Drop(e, 2))
    ELSE IF e[2] = 110 THEN <<10>> \o Unescape(Drop(e, 2))
    ELSE IF e[2] = 114 THEN <<13>> \o Unescape(Drop(e, 2))
    ELSE IF e[2] = 120 /\ Len(e) >= 4
    THEN <<HexValue(SubSeq(e, 3, 4))>> \o Unescape(Drop(e, 4))
    ELSE IF e[2] = 117 /\ Len(e) >= 6
    THEN <<HexValue(SubSeq(e, 3, 6))>> \o Unescape(Drop(e, 6))
    ELSE IF e[2] = 85 /\ Len(e) >= 10
    THEN <<HexValue(SubSeq(e, 3, 10))>> \o Unescape(Drop(e, 10))
    ELSE <<Backslash>> \o Unescape(Tail(e))

Count(s, c) == Cardinality({k \in DOMAIN s : s[k] = c})

C10_ShapeAndReversibleEscape ==
    \A i \in Slots :
        (Called(i) /\ results[i].kind = "return") =>
            LET d == results[i].locals.decoded
                e == results[i].locals.val_contents
                v == results[i].value
                n == Len(e)
            IN  /\ Len(v) >= n + 4
                /\ v[1] = Quote
                /\ [k \in 1 .. n |-> v[k + 1]] = e
                /\ <<v[n + 2], v[n + 3], v[n + 4]>> = <<Quote, Comma, Space>>
                /\ Drop(v, n + 4) = ValueStr(HeaderBytes(AddrOf(i)))
                /\ d = Utf8Decode(Payload(AddrOf(i))).cps
                /\ Unescape(e) = d
                /\ Count(e, Quote) = Count(d, Quote)

C10_Witness ==
    /\ Called(1)
    /\ results[1].kind = "return"
    /\ Count(results[1].locals.decoded, Backslash) >= 1
    /\ Count(results[1].locals.decoded, Quote) >= 1
    /\ Len(results[1].locals.decoded) >= 3

(***************************************************************************)
(* C6.  to_string handles no fault: when a type lookup, a read of the      *)
(* header or of the buffer, or the decoding fails, the call ends in that   *)
(* exception and returns no string.                                        *)
(***************************************************************************)
Raised(i, e) ==
    /\ results[i].kind = "raise"
    /\ results[i].exc = e
    /\ results[i].value = <<>>

LengthInMemory(p) ==
    InMemory(HeaderAddr(p) + symtab["GPStringHeader"].length_at, 1)

C6_FaultsPropagate ==
    \A i \in Slots :
        Called(i) =>
            LET p == AddrOf(i)
            IN  /\ ~TypesFound => Raised(i, "gdb.error")
                /\ (TypesFound /\ ~LengthInMemory(p))
                      => Raised(i, "gdb.MemoryError")
                /\ (TypesFound /\ LengthInMemory(p)
                        /\ ~InMemory(p, LengthField(p)))
                      => Raised(i, "gdb.MemoryError")
                /\ (TypesFound /\ LengthInMemory(p)
                        /\ InMemory(p, LengthField(p))
                        /\ ~Utf8Decode(Payload(p)).ok)
                      => Raised(i, "UnicodeDecodeError")
                /\ (TypesFound /\ LengthInMemory(p)
                        /\ InMemory(p, LengthField(p))
                        /\ Utf8Decode(Payload(p)).ok
                        /\ ~HeaderAndBuffer(p))
                      => Raised(i, "gdb.MemoryError")

C6_Witness ==
    /\ Called(1)
    /\ TypesFound
    /\ Raised(1, "UnicodeDecodeError")

(***************************************************************************)
(* C7.  A call of a lookup function or of to_string changes nothing but    *)
(* its own outcome: gdb.pretty_printers, the value each printer holds and  *)
(* the debuggee's memory stay as they are, and a printer called again over *)
(* the same memory gives the same outcome.                                 *)
(***************************************************************************)
C7_CallsChangeNothing ==
    [][loads' = loads =>
          /\ pretty_printers' = pretty_printers
          /\ mem' = mem
          /\ \A i \in Slots :
                /\ printers[i] # NoObject => printers'[i] = printers[i]
                /\ (Called(i) /\ mem' = mem /\ symtab' = symtab)
                      => results'[i] = results[i]]_vars

C7_Witness ==
    /\ Called(1)
    /\ Called(2)
    /\ printers[1].val # printers[2].val
    /\ results[1] # results[2]
    /\ lastLookup.fn \in LookupFunctions

====
